---- MODULE Spec2Model ----
(***************************************************************************)
(* A model of autorag/utils/util.py: the batched asyncio executor          *)
(* (process_batch), the batching and ragged-list helpers (make_batch,      *)
(* reconstruct_list, flatten_apply) and the corpus lookups                 *)
(* (fetch_one_content, fetch_contents).                                    *)
(*                                                                         *)
(* Python values are encoded as follows.  A list is a sequence.  A call's  *)
(* outcome is a record: [kind |-> "return", val |-> v] or                  *)
(* [kind |-> "raise", exc |-> e].  Python indices are 0-based; sequences   *)
(* here are 1-based, and every operator says which it takes.               *)
(***************************************************************************)
EXTENDS Integers, Sequences, FiniteSets, TLC

VARIABLES
    tasks,       \* process_batch: the submitted awaitables, in order
    batch_size,  \* process_batch: its batch_size argument
    pc,          \* process_batch: "idle", "awaiting", "returned" or "raised"
    i,           \* process_batch: the loop variable, a 0-based start index
    futs,        \* the asyncio Task wrapped around each awaitable
    order,       \* the task indices (1-based) in the order they finished
    started,     \* the task indices in the order gather() scheduled them
    outer,       \* the state of the pending gather() future
    results,     \* process_batch: the local list `results`
    outcome,     \* process_batch: what the caller of the coroutine gets
    call,        \* a call of one of the synchronous helpers: name and arguments
    ret          \* that call's outcome

batchVars == <<tasks, batch_size, pc, i, futs, order, started, outer, results, outcome>>
pureVars == <<call, ret>>
vars == <<tasks, batch_size, pc, i, futs, order, started, outer, results, outcome, call, ret>>

----------------------------------------------------------------------------
(* Bounds of the model. *)

MaxTasks == 4
MaxBatch == 3
MaxElems == 4
MaxCells == 6
MaxFlat == 3
MaxLens == 2
MaxLength == 2
MaxIdCells == 5
MaxStoreRows == 2
MaxCands == 3
MaxQueries == 2
MaxContentCells == 8

----------------------------------------------------------------------------
(* Python built-ins. *)

Min(a, b) == IF a < b THEN a ELSE b
Max(a, b) == IF a > b THEN a ELSE b

Return(v) == [kind |-> "return", val |-> v]
Raise(e) == [kind |-> "raise", exc |-> e]
NoOutcome == [kind |-> "none"]

\* How a slice bound idx is clipped against a list of length n.
SliceIndex(idx, n) == IF idx < 0 THEN Max(n + idx, 0) ELSE Min(idx, n)

\* s[start:stop], start and stop 0-based Python indices.
PySlice(s, start, stop) ==
    LET lo == SliceIndex(start, Len(s))
        hi == SliceIndex(stop, Len(s))
    IN  IF hi <= lo THEN <<>> ELSE SubSeq(s, lo + 1, hi)

\* list(range(0, stop, step)) for stop >= 0 and step # 0 (range raises
\* ValueError on step = 0; the callers test that first).
PyRange(stop, step) ==
    IF step > 0
    THEN [k \in 1..((stop + step - 1) \div step) |-> (k - 1) * step]
    ELSE <<>>

RECURSIVE Chain(_)
\* itertools.chain.from_iterable(rows), as a list.
Chain(rows) == IF rows = <<>> THEN <<>> ELSE Head(rows) \o Chain(Tail(rows))

RECURSIVE SeqsUpTo(_, _)
\* Every sequence over S of length at most n.
SeqsUpTo(S, n) ==
    IF n = 0 THEN {<<>>}
    ELSE LET prev == SeqsUpTo(S, n - 1)
         IN  prev \cup {Append(s, x) : s \in prev, x \in S}

RECURSIVE RaggedUpTo(_, _)
\* Every list of lists over S with (number of rows + number of elements) <= n.
RaggedUpTo(S, n) ==
    IF n = 0 THEN {<<>>}
    ELSE LET prev == RaggedUpTo(S, n - 1)
         IN  prev
             \cup {Append(r, <<>>) : r \in prev}
             \cup {[r EXCEPT ![Len(r)] = Append(@, x)] : r \in prev \ {<<>>}, x \in S}

----------------------------------------------------------------------------
(* make_batch *)

\* A faulty make_batch: the shorter last batch is left out.
MakeBatchDropShort(elems, size) ==
    IF size = 0 THEN Raise("ValueError")
    ELSE Return([k \in 1..(IF size > 0 THEN Len(elems) \div size ELSE 0) |->
                    PySlice(elems, (k - 1) * size, (k - 1) * size + size)])

make_batch(elems, size) ==
    IF size = 0 THEN Raise("ValueError")
    ELSE LET starts == PyRange(Len(elems), size)
         IN  Return([k \in DOMAIN starts |->
                        PySlice(elems, starts[k], starts[k] + size)])

----------------------------------------------------------------------------
(* process_batch, a coroutine run by the asyncio event loop.  The event     *)
(* loop runs one callback at a time, so the code between two awaits is one  *)
(* step; the wrapped tasks finish in any order.                             *)

TaskVals == {10, 20}

\* An awaitable handed to process_batch: it returns res, or raises if fails.
Awaitables == [res : TaskVals, fails : BOOLEAN]

NewFuture == [st |-> "new"]

\* A faulty batch slice: tasks[i:i + batch_size + 1].
BatchIdxOffByOne(ts, start, size) ==
    PySlice([k \in 1..Len(ts) |-> k], start, start + size + 1)

\* The positions (1-based) in ts of the elements of ts[start:start + size].
BatchIdx(ts, start, size) ==
    PySlice([k \in 1..Len(ts) |-> k], start, start + size)

\* A faulty gather: the results in the order the children finished.
GatherValueAsCompleted(children, fs, ord) ==
    LET mine == SelectSeq(ord, LAMBDA t : \E k \in DOMAIN children : children[k] = t)
    IN  [k \in DOMAIN mine |-> fs[mine[k]].res]

\* The result gather() sets on its outer future: the children's results in
\* the order the children were passed, whatever the order they finished in.
GatherValue(children, fs, ord) ==
    [k \in DOMAIN children |-> fs[children[k]].res]

\* A faulty gather: the last awaitable is never scheduled.
GatherStartSkipsLast(fs, children) ==
    [t \in DOMAIN fs |->
        IF \E k \in 1..(Len(children) - 1) : children[k] = t
        THEN [st |-> "running"] ELSE fs[t]]

\* asyncio.gather(*batch): wraps every awaitable in a Task, which schedules it.
GatherStart(fs, children) ==
    [t \in DOMAIN fs |->
        IF \E k \in DOMAIN children : children[k] = t
        THEN [st |-> "running"] ELSE fs[t]]

\* The for loop from the point where it asks range() for the value after cur,
\* up to the next await or the return.
RunLoop(ts, bs, fs, cur, res) ==
    LET starts == PyRange(Len(ts), bs)
        later == {k \in DOMAIN starts : starts[k] > cur}
    IN  IF later # {}
        THEN LET k == CHOOSE x \in later : \A y \in later : x <= y
                 children == BatchIdx(ts, starts[k], bs)
             IN  /\ i' = starts[k]
                 /\ futs' = GatherStart(fs, children)
                 /\ started' = started \o children
                 /\ outer' = [st |-> "pending", children |-> children]
                 /\ results' = res
                 /\ pc' = "awaiting"
                 /\ outcome' = NoOutcome
        ELSE /\ i' = cur
             /\ futs' = fs
             /\ started' = started
             /\ outer' = [st |-> "none"]
             /\ results' = res
             /\ pc' = "returned"
             /\ outcome' = Return(res)

\* The caller awaits process_batch(ts, bs): the coroutine runs to its first
\* await.  range(0, len(tasks), 0) raises ValueError before any task starts.
Call(ts, bs) ==
    /\ pc = "idle"
    /\ call.fn = "none"
    /\ tasks' = ts
    /\ batch_size' = bs
    /\ order' = <<>>
    /\ IF bs = 0
       THEN /\ pc' = "raised"
            /\ outcome' = Raise("ValueError")
            /\ futs' = [t \in DOMAIN ts |-> NewFuture]
            /\ started' = started
            /\ i' = -1
            /\ outer' = [st |-> "none"]
            /\ results' = <<>>
       ELSE RunLoop(ts, bs, [t \in DOMAIN ts |-> NewFuture], -1, <<>>)
    /\ UNCHANGED pureVars

\* A running task finishes (with its result or its exception), and gather's
\* done-callback runs: the first exception is set on the outer future at once,
\* a result only when every child has finished.
TaskFinish(t) ==
    /\ t \in DOMAIN futs
    /\ futs[t].st = "running"
    /\ LET f == IF tasks[t].fails THEN [st |-> "failed"]
                ELSE [st |-> "done", res |-> tasks[t].res]
           fs == [futs EXCEPT ![t] = f]
           ord == Append(order, t)
       IN  /\ futs' = fs
           /\ order' = ord
           /\ outer' =
                IF outer.st = "pending" /\ \E k \in DOMAIN outer.children : outer.children[k] = t
                THEN IF f.st = "failed"
                     THEN [st |-> "exception", task |-> t, children |-> outer.children]
                     ELSE IF \A k \in DOMAIN outer.children : fs[outer.children[k]].st = "done"
                          THEN [st |-> "result", children |-> outer.children,
                                val |-> GatherValue(outer.children, fs, ord)]
                          ELSE outer
                ELSE outer
    /\ UNCHANGED <<tasks, batch_size, pc, i, started, results, outcome>>
    /\ UNCHANGED pureVars

\* `batch_results = await asyncio.gather(*batch)` resumes with the result:
\* results.extend(batch_results), then the loop goes on.
ResumeWithResult ==
    /\ pc = "awaiting"
    /\ outer.st = "result"
    /\ RunLoop(tasks, batch_size, futs, i, results \o outer.val)
    /\ UNCHANGED <<tasks, batch_size, order>>
    /\ UNCHANGED pureVars

\* A faulty process_batch: the failure is swallowed and the loop goes on.
ResumeSkippingFailure ==
    /\ pc = "awaiting"
    /\ outer.st = "exception"
    /\ RunLoop(tasks, batch_size, futs, i, results)
    /\ UNCHANGED <<tasks, batch_size, order>>
    /\ UNCHANGED pureVars

\* The await resumes with the first child's exception, which nothing in
\* process_batch catches: the coroutine ends with it.
ResumeWithException ==
    /\ pc = "awaiting"
    /\ outer.st = "exception"
    /\ pc' = "raised"
    /\ outcome' = [kind |-> "raise", exc |-> "TaskError", task |-> outer.task]
    /\ UNCHANGED <<tasks, batch_size, i, futs, order, started, outer, results>>
    /\ UNCHANGED pureVars

BatchSizes == -1..MaxBatch

\* Nothing has been called yet.
Idle == pc = "idle" /\ call.fn = "none"

InitIdle ==
    /\ tasks = <<>>
    /\ batch_size = 1
    /\ pc = "idle"
    /\ i = -1
    /\ futs = <<>>
    /\ order = <<>>
    /\ started = <<>>
    /\ outer = [st |-> "none"]
    /\ results = <<>>
    /\ outcome = NoOutcome
    /\ call = [fn |-> "none"]
    /\ ret = NoOutcome

TaskLists == SeqsUpTo(Awaitables, MaxTasks)

NextBatch ==
    \/ Idle /\ \E ts \in TaskLists, bs \in BatchSizes : Call(ts, bs)
    \/ \E t \in 1..MaxTasks : TaskFinish(t)
    \/ ResumeWithResult
    \/ ResumeWithException

SpecBatch == InitIdle /\ [][NextBatch]_vars

\* The event loop runs every callback that is ready, so a coroutine whose
\* awaited future is done is resumed; and every started task is taken to
\* finish, with a result or an exception.
FairSpecBatch ==
    /\ SpecBatch
    /\ WF_vars(ResumeWithResult)
    /\ WF_vars(ResumeWithException)
    /\ \A t \in 1..MaxTasks : WF_vars(TaskFinish(t))

----------------------------------------------------------------------------
(* The synchronous helpers.  Each is an operator; an action calls it on     *)
(* arguments drawn from a bounded set and records the call and its outcome. *)

Elems == {"a", "b"}

\* float('nan'), the value pandas puts where explode() finds an empty list,
\* and None.  Neither is a str, and neither is a list element or a doc_id.
NaN == "<nan>"
None == "<None>"

IsStr(x) == x \notin {NaN, None}

\* A faulty reconstruct_list: `start += length` is missing.
reconstruct_list_NoAdvance(flat_list, lengths) ==
    [r \in DOMAIN lengths |-> PySlice(flat_list, 0, lengths[r])]

\* A faulty loop: the slice is flat_list[start:length].
RECURSIVE ReconstructFromStopAtLength(_, _, _)
ReconstructFromStopAtLength(flat_list, lengths, start) ==
    IF lengths = <<>> THEN <<>>
    ELSE <<PySlice(flat_list, start, Head(lengths))>>
         \o ReconstructFromStopAtLength(flat_list, Tail(lengths), start + Head(lengths))

RECURSIVE ReconstructFrom(_, _, _)
\* The loop of reconstruct_list with `start` at the given value.
ReconstructFrom(flat_list, lengths, start) ==
    IF lengths = <<>> THEN <<>>
    ELSE <<PySlice(flat_list, start, start + Head(lengths))>>
         \o ReconstructFrom(flat_list, Tail(lengths), start + Head(lengths))

reconstruct_list(flat_list, lengths) == ReconstructFrom(flat_list, lengths, 0)

\* embedding_query_content's handling of contents_list, the embedding left
\* out: flatten, take the row lengths, reconstruct.
FlattenThenReconstruct(rows) ==
    LET flatten_contents == Chain(rows)
        content_lengths == [r \in DOMAIN rows |-> Len(rows[r])]
    IN  reconstruct_list(flatten_contents, content_lengths)

\* A faulty explode: an empty list gives no frame row.
RECURSIVE ExplodeDropEmpty(_)
ExplodeDropEmpty(nested) ==
    IF nested = <<>> THEN <<>>
    ELSE LET r == Len(nested)
         IN  ExplodeDropEmpty(SubSeq(nested, 1, r - 1))
             \o [k \in DOMAIN nested[r] |-> [idx |-> r, col1 |-> nested[r][k]]]

RECURSIVE Explode(_)
\* pd.DataFrame({'col1': nested}).explode('col1'): one frame row per list
\* element, labelled with the index of the list it came from; an empty list
\* gives one frame row holding NaN.
Explode(nested) ==
    IF nested = <<>> THEN <<>>
    ELSE LET r == Len(nested)
             own == IF nested[r] = <<>> THEN <<[idx |-> r, col1 |-> NaN]>>
                    ELSE [k \in DOMAIN nested[r] |-> [idx |-> r, col1 |-> nested[r][k]]]
         IN  Explode(SubSeq(nested, 1, r - 1)) \o own

RECURSIVE FirstSeen(_)
\* The distinct index labels of a frame in the order they first occur.
FirstSeen(labels) ==
    IF labels = <<>> THEN <<>>
    ELSE LET before == FirstSeen(SubSeq(labels, 1, Len(labels) - 1))
             last == labels[Len(labels)]
         IN  IF \E k \in DOMAIN before : before[k] = last
             THEN before ELSE Append(before, last)

\* df.groupby(level=0, sort=False)['result'].apply(list).tolist(): one list per
\* index label, labels in first-seen order, each list in frame order.
GroupByLevel0(frame) ==
    LET keys == FirstSeen([k \in DOMAIN frame |-> frame[k].idx])
    IN  [g \in DOMAIN keys |->
            LET rows == SelectSeq(frame, LAMBDA row : row.idx = keys[g])
            IN  [k \in DOMAIN rows |-> rows[k].result]]

\* The corpus: rows with the columns doc_id, contents and metadata.
DocIds == {"d1", "d2"}
CorpusRows == [doc_id : DocIds, contents : {"c1", "c2"}, metadata : {"m1"}]
Columns == {"contents", "metadata"}

\* A faulty fetch_one_content: iloc[-1], the last matching row.
fetch_one_content_last(corpus_data, id_, column_name) ==
    IF IsStr(id_)
    THEN IF id_ = ""
         THEN [kind |-> "return", val |-> None, queried |-> FALSE]
         ELSE LET fetch_result == SelectSeq(corpus_data, LAMBDA row : row.doc_id = id_)
              IN  IF fetch_result = <<>>
                  THEN [kind |-> "raise", exc |-> "ValueError", queried |-> TRUE]
                  ELSE [kind |-> "return", queried |-> TRUE,
                        val |-> fetch_result[Len(fetch_result)][column_name]]
    ELSE [kind |-> "return", val |-> None, queried |-> FALSE]

\* queried: whether corpus_data was filtered on the way to the outcome.
fetch_one_content(corpus_data, id_, column_name) ==
    IF IsStr(id_)
    THEN IF id_ = ""
         THEN [kind |-> "return", val |-> None, queried |-> FALSE]
         ELSE LET fetch_result == SelectSeq(corpus_data, LAMBDA row : row.doc_id = id_)
              IN  IF fetch_result = <<>>
                  THEN [kind |-> "raise", exc |-> "ValueError", queried |-> TRUE]
                  ELSE [kind |-> "return", queried |-> TRUE,
                        val |-> fetch_result[1][column_name]]
    ELSE [kind |-> "return", val |-> None, queried |-> FALSE]

\* A faulty fetch_contents_pure: the values in reverse order.
fetch_contents_pure_reversed(ids, corpus_data, column_name) ==
    LET each == [k \in DOMAIN ids |->
                    fetch_one_content(corpus_data, ids[Len(ids) + 1 - k], column_name)]
    IN  IF \E k \in DOMAIN each : each[k].kind = "raise"
        THEN Raise("ValueError")
        ELSE Return([k \in DOMAIN each |-> each[k].val])

\* list(map(fetch_one_content, ids)): the first lookup that raises ends it.
fetch_contents_pure(ids, corpus_data, column_name) ==
    LET each == [k \in DOMAIN ids |-> fetch_one_content(corpus_data, ids[k], column_name)]
    IN  IF \E k \in DOMAIN each : each[k].kind = "raise"
        THEN Raise("ValueError")
        ELSE Return([k \in DOMAIN each |-> each[k].val])

\* func(xs, **kwargs) for the functions the callers here pass to flatten_apply:
\* the identity, and fetch_contents' inner fetch_contents_pure.
Apply(func, xs, kwargs) ==
    IF func = "fetch_contents_pure"
    THEN fetch_contents_pure(xs, kwargs.corpus_data, kwargs.column_name)
    ELSE Return(xs)

\* flatten_apply(func, nested_list, **kwargs).  Assigning a list of another
\* length than the frame to df['result'] raises ValueError.
flatten_apply(func, nested_list, kwargs) ==
    LET df == Explode(nested_list)
        out == Apply(func, [k \in DOMAIN df |-> df[k].col1], kwargs)
    IN  IF out.kind = "raise" THEN out
        ELSE IF Len(out.val) # Len(df) THEN Raise("ValueError")
        ELSE Return(GroupByLevel0(
                 [k \in DOMAIN df |-> [idx |-> df[k].idx, result |-> out.val[k]]]))

CallMakeBatch(elems, size) ==
    /\ pc = "idle"
    /\ call.fn = "none"
    /\ call' = [fn |-> "make_batch", elems |-> elems, batch_size |-> size]
    /\ ret' = make_batch(elems, size)
    /\ UNCHANGED batchVars

CallReconstructList(flat_list, lengths) ==
    /\ pc = "idle"
    /\ call.fn = "none"
    /\ call' = [fn |-> "reconstruct_list", flat_list |-> flat_list, lengths |-> lengths]
    /\ ret' = Return(reconstruct_list(flat_list, lengths))
    /\ UNCHANGED batchVars

CallFlattenThenReconstruct(rows) ==
    /\ pc = "idle"
    /\ call.fn = "none"
    /\ call' = [fn |-> "flatten_then_reconstruct", rows |-> rows]
    /\ ret' = Return(FlattenThenReconstruct(rows))
    /\ UNCHANGED batchVars

CallFlattenApplyIdentity(rows) ==
    /\ pc = "idle"
    /\ call.fn = "none"
    /\ call' = [fn |-> "flatten_apply", nested_list |-> rows]
    /\ ret' = flatten_apply("identity", rows, <<>>)
    /\ UNCHANGED batchVars

ElemLists == SeqsUpTo(Elems, MaxElems)
FlatLists == SeqsUpTo(Elems, MaxFlat)
LengthLists == SeqsUpTo(0..MaxLength, MaxLens)
RaggedLists == RaggedUpTo(Elems, MaxCells)

NextRagged ==
    \/ Idle /\ \E elems \in ElemLists, size \in BatchSizes : CallMakeBatch(elems, size)
    \/ Idle /\ \E flat \in FlatLists, lengths \in LengthLists :
                  CallReconstructList(flat, lengths)
    \/ Idle /\ \E rows \in RaggedLists : CallFlattenThenReconstruct(rows)
    \/ Idle /\ \E rows \in RaggedLists : CallFlattenApplyIdentity(rows)

SpecRagged == InitIdle /\ [][NextRagged]_vars

----------------------------------------------------------------------------
(* fetch_contents, and the calls of the two lookups.                        *)

fetch_contents(corpus_data, ids, column_name) ==
    flatten_apply("fetch_contents_pure", ids,
                  [corpus_data |-> corpus_data, column_name |-> column_name])

CallFetchOneContent(corpus_data, id_, column_name) ==
    /\ pc = "idle"
    /\ call.fn = "none"
    /\ call' = [fn |-> "fetch_one_content", corpus_data |-> corpus_data,
                id_ |-> id_, column_name |-> column_name]
    /\ ret' = fetch_one_content(corpus_data, id_, column_name)
    /\ UNCHANGED batchVars

CallFetchContents(corpus_data, ids, column_name) ==
    /\ pc = "idle"
    /\ call.fn = "none"
    /\ call' = [fn |-> "fetch_contents", corpus_data |-> corpus_data,
                ids |-> ids, column_name |-> column_name]
    /\ ret' = fetch_contents(corpus_data, ids, column_name)
    /\ UNCHANGED batchVars

Corpora == SeqsUpTo(CorpusRows, MaxStoreRows)

RaggedIds == RaggedUpTo(DocIds \cup {""}, MaxIdCells)

NextFetch ==
    \/ Idle /\ \E c \in Corpora, id \in DocIds \cup {"", "d3"}, col \in Columns :
                  CallFetchOneContent(c, id, col)
    \/ Idle /\ \E c \in Corpora, ids \in RaggedIds, col \in Columns :
                  CallFetchContents(c, ids, col)

SpecFetch == InitIdle /\ [][NextFetch]_vars

----------------------------------------------------------------------------
(* Properties of process_batch, checked under SpecBatch. *)

\* The 0-based number of the batch that task t (1-based) belongs to.
BatchOf(t) == (t - 1) \div batch_size

Called == pc # "idle"

AllSucceed == \A t \in DOMAIN tasks : ~tasks[t].fails

Finished(t) == futs[t].st \in {"done", "failed"}

\* C1: with a batch size >= 1 and tasks that all succeed, process_batch never
\* raises, the results gathered so far are those of the first tasks in
\* submission order, and the list it returns has one result per task, the
\* i-th being the i-th task's, whatever the order the tasks finished in.
C1_ResultsInSubmissionOrder ==
    (Called /\ batch_size >= 1 /\ AllSucceed) =>
        /\ pc \in {"awaiting", "returned"}
        /\ pc = "awaiting" =>
              /\ Len(results) = i
              /\ \A t \in 1..i : results[t] = tasks[t].res
        /\ pc = "returned" =>
              /\ outcome.kind = "return"
              /\ Len(outcome.val) = Len(tasks)
              /\ \A t \in DOMAIN tasks : outcome.val[t] = tasks[t].res

\* A run of three tasks in batches of two has returned, the second task having
\* finished before the first one, with a different result.
C1_Witness ==
    /\ pc = "returned"
    /\ batch_size = 2
    /\ Len(tasks) = 3
    /\ order = <<2, 1, 3>>
    /\ tasks[1].res # tasks[2].res
    /\ outcome = Return(<<tasks[1].res, tasks[2].res, tasks[3].res>>)

\* C2: with a batch size B >= 1, a task of a later batch is started only when
\* every task of every earlier batch has finished, and at most B tasks are
\* running at any moment.
C2_BatchBarrier ==
    (Called /\ batch_size >= 1) =>
        /\ \A t, u \in DOMAIN futs :
              (BatchOf(t) < BatchOf(u) /\ futs[u].st # "new") => Finished(t)
        /\ Cardinality({t \in DOMAIN futs : futs[t].st = "running"}) <= batch_size

\* The second batch of two is running in full, the first batch having finished.
C2_Witness ==
    /\ pc = "awaiting"
    /\ batch_size = 2
    /\ Len(tasks) = 4
    /\ futs[1].st = "done" /\ futs[2].st = "done"
    /\ futs[3].st = "running" /\ futs[4].st = "running"

\* C3: once a task has failed, process_batch never returns a result list: it
\* is about to raise (gather's future holds the exception) or has raised that
\* task failure to its caller, and no task of a later batch than the failed
\* task's is ever started.
C3_FailFast ==
    \A t \in DOMAIN futs :
        futs[t].st = "failed" =>
            /\ pc \in {"awaiting", "raised"}
            /\ outcome.kind # "return"
            /\ pc = "awaiting" => outer.st = "exception"
            /\ pc = "raised" =>
                  /\ outcome.kind = "raise"
                  /\ outcome.exc = "TaskError"
                  /\ futs[outcome.task].st = "failed"
            /\ \A u \in DOMAIN futs : BatchOf(u) > BatchOf(t) => futs[u].st = "new"

\* The last task of the second batch failed after the other task of its batch
\* had finished; process_batch has raised and the third batch was never started.
C3_Witness ==
    /\ pc = "raised"
    /\ batch_size = 2
    /\ Len(tasks) = 4
    /\ futs[1].st = "done" /\ futs[2].st = "failed"
    /\ outcome.kind = "raise" /\ outcome.task = 2
    /\ futs[3].st = "new" /\ futs[4].st = "new"

----------------------------------------------------------------------------
(* Properties of make_batch, reconstruct_list and flatten_apply, checked    *)
(* under SpecRagged.                                                        *)

RECURSIVE Sum(_)
Sum(ns) == IF ns = <<>> THEN 0 ELSE Head(ns) + Sum(Tail(ns))

\* C4: for a batch size k >= 1 make_batch returns ceil(len(elems)/k) batches
\* whose concatenation is elems, each but possibly the last of length k.
C4_MakeBatchPartition ==
    (call.fn = "make_batch" /\ call.batch_size >= 1) =>
        /\ ret.kind = "return"
        /\ Len(ret.val) * call.batch_size >= Len(call.elems)
        /\ (Len(ret.val) - 1) * call.batch_size < Len(call.elems) \/ Len(ret.val) = 0
        /\ Chain(ret.val) = call.elems
        /\ \A k \in 1..(Len(ret.val) - 1) : Len(ret.val[k]) = call.batch_size

\* Four elements in batches of three: a full batch and a shorter last one.
C4_Witness ==
    /\ call.fn = "make_batch"
    /\ call.batch_size = 3
    /\ call.elems = <<"a", "b", "b", "a">>
    /\ ret = Return(<<<<"a", "b", "b">>, <<"a">>>>)

\* C5: make_batch rejects every batch size <= 0 with an error and returns no
\* batch list.
C5_NonPositiveBatchSizeRejected ==
    (call.fn = "make_batch" /\ call.batch_size <= 0) => ret.kind = "raise"

\* C6: flattening rows and reconstructing with the rows' lengths gives rows back.
C6_RoundTrip ==
    call.fn = "flatten_then_reconstruct" => ret = Return(call.rows)

\* Rows of lengths 2, 0 and 1 came back unchanged.
C6_Witness ==
    /\ call.fn = "flatten_then_reconstruct"
    /\ call.rows = <<<<"a", "b">>, <<>>, <<"b">>>>
    /\ ret.val = call.rows

ClippedLength(flat_list, lengths, r) ==
    Max(0, Min(lengths[r], Len(flat_list) - Sum(SubSeq(lengths, 1, r - 1))))

----------------------------------------------------------------------------
(* Properties of fetch_one_content and fetch_contents, checked under        *)
(* SpecFetch.                                                               *)

Matches(corpus_data, id_) == {k \in DOMAIN corpus_data : corpus_data[k].doc_id = id_}

FirstMatch(corpus_data, id_) ==
    CHOOSE k \in Matches(corpus_data, id_) : \A m \in Matches(corpus_data, id_) : k <= m

\* Every non-empty identifier of ids is a doc_id of the corpus.
AllPresent(corpus_data, ids) ==
    \A r \in DOMAIN ids : \A j \in DOMAIN ids[r] :
        ids[r][j] # "" => Matches(corpus_data, ids[r][j]) # {}

\* What the claims call resolveOne(store, id) for an id that is empty or present.
Resolved(corpus_data, id_, column_name) ==
    IF id_ = "" THEN None
    ELSE corpus_data[FirstMatch(corpus_data, id_)][column_name]

C10_ThreeOutcomes ==
    call.fn = "fetch_one_content" =>
        /\ call.id_ = "" =>
              ret.kind = "return" /\ ret.val = None /\ ~ret.queried
        /\ (call.id_ # "" /\ Matches(call.corpus_data, call.id_) = {}) =>
              ret.kind = "raise" /\ ret.exc = "ValueError"
        /\ (call.id_ # "" /\ Matches(call.corpus_data, call.id_) # {}) =>
              /\ ret.kind = "return"
              /\ ret.val =
                    call.corpus_data[FirstMatch(call.corpus_data, call.id_)][call.column_name]

\* Two rows carry the id asked for, with different contents: the first is used.
C10_Witness ==
    /\ call.fn = "fetch_one_content"
    /\ call.id_ = "d1"
    /\ call.column_name = "contents"
    /\ call.corpus_data = <<[doc_id |-> "d1", contents |-> "c2", metadata |-> "m1"],
                            [doc_id |-> "d1", contents |-> "c1", metadata |-> "m1"]>>
    /\ ret.kind = "return" /\ ret.val = "c2"

----------------------------------------------------------------------------
(* make_combinations.  A dict is a sequence of [key, value] entries with    *)
(* distinct keys, in insertion order.  A value is a list of candidates      *)
(* ([islist |-> TRUE, items |-> <<...>>]) or a single object                 *)
(* ([islist |-> FALSE, item |-> x]).  Candidates are numbers; 0 stands for  *)
(* an object that cannot be hashed (a dict, say), 1 and 2 for hashable ones.*)

ParamKeys == {"a", "b"}
Candidates == 0..2

is_hashable(obj) == obj > 0

RangeOf(x) == {x[k] : k \in DOMAIN x}

\* The lists without repetition that hold exactly the members of S.
Orderings(S) ==
    {x \in SeqsUpTo(S, Cardinality(S)) : Len(x) = Cardinality(S) /\ RangeOf(x) = S}

\* A faulty delete_duplicate: the list is returned as given.
delete_duplicate_keeps_all(x) == {x}

\* delete_duplicate(x), as the set of lists it may return: list(set(x)) holds
\* each distinct member once, in an order the hash table decides.
delete_duplicate(x) ==
    IF \E k \in DOMAIN x : ~is_hashable(x[k])
    THEN {x}
    ELSE Orderings(RangeOf(x))

RECURSIVE Product(_)
\* list(itertools.product(*lists)): the last list varies fastest.
Product(lists) ==
    IF lists = <<>> THEN <<<<>>>>
    ELSE LET rest == Product(Tail(lists))
             first == Head(lists)
         IN  [n \in 1..(Len(first) * Len(rest)) |->
                 <<first[((n - 1) \div Len(rest)) + 1]>>
                 \o rest[((n - 1) % Len(rest)) + 1]]

\* dict(zip(keys, combo)) for distinct keys.
DictZip(keys, combo) ==
    [key \in RangeOf(keys) |-> combo[CHOOSE k \in DOMAIN keys : keys[k] = key]]

\* The first dict_with_lists: every value that is no list becomes a list of one.
dict_with_lists(target_dict) ==
    [k \in DOMAIN target_dict |->
        [key |-> target_dict[k].key,
         value |-> IF target_dict[k].value.islist
                   THEN target_dict[k].value.items
                   ELSE <<target_dict[k].value.item>>]]

\* make_combinations(target_dict), as the set of lists it may return (one per
\* way delete_duplicate may order the candidates of each key).
make_combinations(target_dict) ==
    LET with_lists == dict_with_lists(target_dict)
        keys == [k \in DOMAIN with_lists |-> with_lists[k].key]
        choices == UNION {delete_duplicate(with_lists[k].value) : k \in DOMAIN with_lists}
        deduped == {d \in [DOMAIN with_lists -> choices] :
                       \A k \in DOMAIN with_lists :
                           d[k] \in delete_duplicate(with_lists[k].value)}
    IN  {LET combination == Product(d)
         IN  [c \in DOMAIN combination |-> DictZip(keys, combination[c])]
         : d \in deduped}

CallMakeCombinations(target_dict) ==
    /\ pc = "idle"
    /\ call.fn = "none"
    /\ call' = [fn |-> "make_combinations", target_dict |-> target_dict]
    /\ \E out \in make_combinations(target_dict) : ret' = Return(out)
    /\ UNCHANGED batchVars

ParamValues ==
    {[islist |-> TRUE, items |-> x] : x \in SeqsUpTo(Candidates, MaxCands)}
    \cup {[islist |-> FALSE, item |-> x] : x \in Candidates}

\* Every dict over ParamKeys, in every insertion order.
TargetDicts ==
    {d \in SeqsUpTo([key : ParamKeys, value : ParamValues], Cardinality(ParamKeys)) :
        \A j, k \in DOMAIN d : d[j].key = d[k].key => j = k}

NextCombinations ==
    \/ Idle /\ \E target_dict \in TargetDicts : CallMakeCombinations(target_dict)

SpecCombinations == InitIdle /\ [][NextCombinations]_vars

----------------------------------------------------------------------------
(* Properties of make_combinations, checked under SpecCombinations. *)

RECURSIVE ProductOf(_)
ProductOf(ns) == IF ns = <<>> THEN 1 ELSE Head(ns) * ProductOf(Tail(ns))

\* The candidates of entry k of a dict: the members of its list, or its one object.
CandidateSet(target_dict, k) ==
    IF target_dict[k].value.islist
    THEN RangeOf(target_dict[k].value.items)
    ELSE {target_dict[k].value.item}

AllHashable(target_dict) ==
    \A k \in DOMAIN target_dict : \A x \in CandidateSet(target_dict, k) : is_hashable(x)

\* C11: when every candidate is hashable, make_combinations returns as many
\* assignments as the product of the keys' numbers of distinct candidates;
\* each assignment binds exactly the keys of the input, each key to one of its
\* candidates; and no two assignments are equal.  So there is exactly one
\* assignment per member of the Cartesian product of the deduplicated
\* candidate sets.  A value that is no list counts as one candidate.
C11_CartesianProduct ==
    (call.fn = "make_combinations" /\ AllHashable(call.target_dict)) =>
        LET td == call.target_dict
            out == ret.val
        IN  /\ ret.kind = "return"
            /\ Len(out) = ProductOf([k \in DOMAIN td |-> Cardinality(CandidateSet(td, k))])
            /\ \A c \in DOMAIN out :
                  /\ DOMAIN out[c] = {td[k].key : k \in DOMAIN td}
                  /\ \A k \in DOMAIN td : out[c][td[k].key] \in CandidateSet(td, k)
            /\ \A c, d \in DOMAIN out : out[c] = out[d] => c = d

\* {"b": [1, 1, 2], "a": 2}: two assignments, b = 1 and b = 2, each with a = 2.
C11_Witness ==
    /\ call.fn = "make_combinations"
    /\ call.target_dict = <<[key |-> "b", value |-> [islist |-> TRUE, items |-> <<1, 1, 2>>]],
                            [key |-> "a", value |-> [islist |-> FALSE, item |-> 2]]>>
    /\ ret.kind = "return"
    /\ Len(ret.val) = 2
    /\ {ret.val[c].b : c \in DOMAIN ret.val} = {1, 2}
    /\ \A c \in DOMAIN ret.val : ret.val[c].a = 2

----------------------------------------------------------------------------
(* embedding_query_content.  A text is a record [name, tokens]: what it     *)
(* says and how many tokens the tokenizer makes of it.  The embedding model *)
(* is given by whether it is an OpenAIEmbedding; its                        *)
(* get_text_embedding_batch returns one vector per text, in order, and a    *)
(* vector is written [embedding_of |-> text].                               *)

openai_embedding_limit == 8191

Texts == {[name |-> "a", tokens |-> 3],
          [name |-> "b", tokens |-> openai_embedding_limit + 1]}

\* tokenizer.decode(tokens[:limit]) keeps the first limit tokens of the text.
truncate_text(text, limit) ==
    IF text.tokens <= limit THEN text ELSE [text EXCEPT !.tokens = limit]

openai_truncate_by_token(texts, token_limit) ==
    [k \in DOMAIN texts |-> truncate_text(texts[k], token_limit)]

get_text_embedding_batch(texts) ==
    [k \in DOMAIN texts |-> [embedding_of |-> texts[k]]]

\* A faulty embedding_query_content: the lengths of the empty rows are left out.
embedding_query_content_skips_empty(queries, contents_list, is_openai) ==
    LET flatten_contents == Chain(contents_list)
        query_embeddings == get_text_embedding_batch(queries)
        nonempty == SelectSeq(contents_list, LAMBDA row : row # <<>>)
        content_lengths == [r \in DOMAIN nonempty |-> Len(nonempty[r])]
        content_embeddings_flatten == get_text_embedding_batch(flatten_contents)
    IN  Return([query_embeddings |-> query_embeddings,
                content_embeddings |->
                    reconstruct_list(content_embeddings_flatten, content_lengths)])

embedding_query_content(queries, contents_list, is_openai) ==
    LET flat == Chain(contents_list)
        queries2 == IF is_openai
                    THEN openai_truncate_by_token(queries, openai_embedding_limit)
                    ELSE queries
        flatten_contents == IF is_openai
                            THEN openai_truncate_by_token(flat, openai_embedding_limit)
                            ELSE flat
        query_embeddings == get_text_embedding_batch(queries2)
        content_lengths == [r \in DOMAIN contents_list |-> Len(contents_list[r])]
        content_embeddings_flatten == get_text_embedding_batch(flatten_contents)
    IN  Return([query_embeddings |-> query_embeddings,
                content_embeddings |->
                    reconstruct_list(content_embeddings_flatten, content_lengths)])

CallEmbeddingQueryContent(queries, contents_list, is_openai) ==
    /\ pc = "idle"
    /\ call.fn = "none"
    /\ call' = [fn |-> "embedding_query_content", queries |-> queries,
                contents_list |-> contents_list, is_openai |-> is_openai]
    /\ ret' = embedding_query_content(queries, contents_list, is_openai)
    /\ UNCHANGED batchVars

QueryLists == SeqsUpTo(Texts, MaxQueries)
ContentLists == RaggedUpTo(Texts, MaxContentCells)

NextEmbedding ==
    \/ Idle /\ \E queries \in QueryLists, contents_list \in ContentLists,
                  is_openai \in BOOLEAN :
                  CallEmbeddingQueryContent(queries, contents_list, is_openai)

SpecEmbedding == InitIdle /\ [][NextEmbedding]_vars

----------------------------------------------------------------------------
(* Properties of embedding_query_content, checked under SpecEmbedding. *)

\* The text the embedding model is given for a text of the caller: the text
\* itself, cut to the token limit for an OpenAIEmbedding.
Submitted(text, is_openai) ==
    IF is_openai /\ text.tokens > openai_embedding_limit
    THEN [name |-> text.name, tokens |-> openai_embedding_limit]
    ELSE text

\* C12: embedding_query_content returns one query vector per query, in query
\* order, and content vectors in as many rows as contents_list, row i as long
\* as row i of contents_list (an empty row stays empty), vector (i, j) being
\* the model's vector for content (i, j) (for the content as the model was
\* given it: cut to the token limit when the model is an OpenAIEmbedding).
C12_EmbeddingsKeepShape ==
    call.fn = "embedding_query_content" =>
        LET q == ret.val.query_embeddings
            c == ret.val.content_embeddings
        IN  /\ ret.kind = "return"
            /\ Len(q) = Len(call.queries)
            /\ \A k \in DOMAIN call.queries :
                  q[k].embedding_of = Submitted(call.queries[k], call.is_openai)
            /\ Len(c) = Len(call.contents_list)
            /\ \A r \in DOMAIN call.contents_list :
                  /\ Len(c[r]) = Len(call.contents_list[r])
                  /\ \A j \in DOMAIN call.contents_list[r] :
                        c[r][j].embedding_of =
                            Submitted(call.contents_list[r][j], call.is_openai)

\* Two queries and content rows of lengths 3, 0 and 2 give vectors in rows of
\* lengths 3, 0 and 2.
C12_Witness ==
    /\ call.fn = "embedding_query_content"
    /\ Len(call.queries) = 2
    /\ call.queries[1] # call.queries[2]
    /\ Len(call.contents_list) = 3
    /\ Len(call.contents_list[1]) = 3
    /\ call.contents_list[1][1] # call.contents_list[1][3]
    /\ call.contents_list[2] = <<>>
    /\ Len(call.contents_list[3]) = 2
    /\ call.contents_list[3][1] # call.contents_list[3][2]
    /\ ret.kind = "return"
    /\ Len(ret.val.content_embeddings[1]) = 3
    /\ ret.val.content_embeddings[2] = <<>>
    /\ Len(ret.val.content_embeddings[3]) = 2

----------------------------------------------------------------------------
(* Termination of process_batch, checked under FairSpecBatch. *)

TimesStarted(t) == Cardinality({k \in DOMAIN started : started[k] = t})

\* C13: with a batch size >= 1 and every started task finishing, a call of
\* process_batch ends, by returning a result list or by raising; and whenever
\* it has returned a result list, every submitted task was started exactly once.
C13_TerminatesStartingEachOnce ==
    /\ (Called /\ batch_size >= 1) ~> (pc \in {"returned", "raised"})
    /\ []((pc = "returned" /\ batch_size >= 1) =>
            \A t \in DOMAIN tasks : TimesStarted(t) = 1)

\* Four tasks in batches of three have all run and the list is returned.
C13_Witness ==
    /\ pc = "returned"
    /\ batch_size = 3
    /\ Len(tasks) = 4
    /\ started = <<1, 2, 3, 4>>
    /\ order = <<3, 1, 2, 4>>
    /\ Len(outcome.val) = 4

====
